---------------------------- MODULE Spec2Model ----------------------------
(***************************************************************************)
(* Model of src/configloader.py: class INIConfigLoader, the two-layer      *)
(* (default + custom) INI configuration lookup.                            *)
(*                                                                         *)
(* State: the files of the configuration directory (fs), the loader's      *)
(* parser cache (self.__parsers), and a record of the calls made so far    *)
(* (history variables last, pinned, edits and loud, used only to state     *)
(* properties).                                                            *)
(*                                                                         *)
(* A backing file is modelled by what configparser.ConfigParser.read makes *)
(* of it: absent, unreadable (open() fails with OSError, which read()      *)
(* swallows), malformed (read() raises), or a mapping section -> key ->    *)
(* value.                                                                  *)
(***************************************************************************)
EXTENDS Integers, Sequences, FiniteSets, TLC

VARIABLES fs, parsers, last, pinned, edits, loud

vars == <<fs, parsers, last, pinned, edits, loud>>

---------------------------------------------------------------------------
(* Bounds of the model *)

\* number of distinct keys that may occur in a section
NumKeys == 2

\* number of changes of the file system in SpecEnv
MaxEdits == 1

---------------------------------------------------------------------------
(* Universe of inputs *)

KeyPool == <<"host", "port", "user", "pass">>

Keys == {KeyPool[i] : i \in 1..NumKeys}

Sections == {"server"}

Names == {"app"}

\* "" is the empty string, the value of a line `key =`
Values == {"", "x", "y"}

EmptyMap == [k \in {} |-> ""]

\* the key/value mappings of one section
KeyMaps == UNION {[K -> Values] : K \in SUBSET Keys}

\* the section mappings of one file
SectionMaps == UNION {[S -> KeyMaps] : S \in SUBSET Sections}

Absent == [kind |-> "absent", sections |-> EmptyMap]

Unreadable == [kind |-> "unreadable", sections |-> EmptyMap]

Malformed == [kind |-> "malformed", sections |-> EmptyMap]

Ini(m) == [kind |-> "ini", sections |-> m]

Contents == {Absent, Unreadable, Malformed} \cup {Ini(m) : m \in SectionMaps}

\* contents in which every key of the section carries the same value
UniformContents ==
    {Absent, Malformed, Ini(EmptyMap)}
        \cup {Ini([s \in Sections |-> [k \in Keys |-> v]]) : v \in Values}

---------------------------------------------------------------------------
(* Construction-time configuration: __init__ *)

configs_path == "conf"

sep == "/"

config_ext == ".ini"

default_ext == ".default"

NoPath == ""

\* truthiness of an optional path: None is falsy, a path is a non-empty string
PathTruthy(path) == path # NoPath

CustomPath(config_file_name) ==
    (configs_path \o sep \o config_file_name) \o config_ext

DefaultPath(config_file_name) ==
    (configs_path \o sep \o config_file_name) \o default_ext \o config_ext

Paths == {CustomPath(n) : n \in Names} \cup {DefaultPath(n) : n \in Names}

isfile(path) == fs[path].kind # "absent"

---------------------------------------------------------------------------
(* configparser.ConfigParser objects and dict.get on self.__parsers *)

NoParser == [kind |-> "none", sections |-> EmptyMap]

Parser(m) == [kind |-> "parser", sections |-> m]

ParserLenNoDefault(parser) == Cardinality(DOMAIN parser.sections)

\* RawConfigParser.__len__: the sections plus the DEFAULT section
ParserLen(parser) == Cardinality(DOMAIN parser.sections) + 1

ParserTruthyNever(parser) == FALSE

\* `if not parser`: None is falsy, a parser is truthy when its len is not 0
ParserTruthy(parser) == parser.kind = "parser" /\ ParserLen(parser) # 0

\* parser.read(config_path, encoding="utf-8"): a file that cannot be opened
\* is skipped silently, a malformed file raises
ParserRead(config_path) ==
    LET content == fs[config_path]
    IN  IF content.kind = "malformed"
        THEN [raised |-> TRUE, parser |-> NoParser]
        ELSE [raised |-> FALSE, parser |-> Parser(content.sections)]

\* optional string: None or a str
None == [isNone |-> TRUE, str |-> ""]

Str(v) == [isNone |-> FALSE, str |-> v]

ValueTruthyNotNone(value) == ~value.isNone

\* `if not value`: None and "" are falsy
ValueTruthy(value) == ~value.isNone /\ value.str # ""

\* parser.get(section, key) with NoOptionError/NoSectionError turned into None
ParserGet(parser, section, key) ==
    IF section \in DOMAIN parser.sections
          /\ key \in DOMAIN parser.sections[section]
    THEN Str(parser.sections[section][key])
    ELSE None

\* dict(parser[section].items()) if parser.has_section(section) else dict()
ParserSection(parser, section) ==
    IF section \in DOMAIN parser.sections
    THEN parser.sections[section]
    ELSE EmptyMap

---------------------------------------------------------------------------
(* The private helpers. st = [parsers, reads]: the cache and the set of    *)
(* paths read from disk so far in the current call.                        *)

get_parser_store_first(st, config_path) ==
    LET parser == st.parsers[config_path]
    IN  IF ~ParserTruthy(parser)
        THEN LET r == ParserRead(config_path)
                 st1 == [parsers |-> [st.parsers EXCEPT
                                        ![config_path] = Parser(EmptyMap)],
                         reads |-> st.reads \cup {config_path}]
             IN  IF r.raised
                 THEN [raised |-> TRUE, parser |-> NoParser, st |-> st1]
                 ELSE [raised |-> FALSE, parser |-> r.parser,
                       st |-> [st1 EXCEPT !.parsers[config_path] = r.parser]]
        ELSE [raised |-> FALSE, parser |-> parser, st |-> st]

get_parser(st, config_path) ==
    LET parser == st.parsers[config_path]
    IN  IF ~ParserTruthy(parser)
        THEN LET r == ParserRead(config_path)
                 st1 == [st EXCEPT !.reads = @ \cup {config_path}]
             IN  IF r.raised
                 THEN [raised |-> TRUE, parser |-> NoParser, st |-> st1]
                 ELSE [raised |-> FALSE, parser |-> r.parser,
                       st |-> [st1 EXCEPT !.parsers[config_path] = r.parser]]
        ELSE [raised |-> FALSE, parser |-> parser, st |-> st]

find_ini_custom(config_file_name) ==
    LET custom_path == CustomPath(config_file_name)
    IN  IF isfile(custom_path) THEN custom_path ELSE NoPath

find_ini_default_as_custom(config_file_name) ==
    LET default_path == CustomPath(config_file_name)
    IN  IF isfile(default_path) THEN default_path ELSE NoPath

find_ini_default(config_file_name) ==
    LET default_path == DefaultPath(config_file_name)
    IN  IF isfile(default_path) THEN default_path ELSE NoPath

find_ini_value(st, config_path, section, key) ==
    LET g == get_parser(st, config_path)
    IN  IF g.raised
        THEN [raised |-> TRUE, value |-> None, st |-> g.st]
        ELSE [raised |-> FALSE, value |-> ParserGet(g.parser, section, key),
              st |-> g.st]

get_ini_section(st, config_path, section) ==
    LET g == get_parser(st, config_path)
    IN  IF g.raised
        THEN [raised |-> TRUE, dict |-> EmptyMap, st |-> g.st]
        ELSE [raised |-> FALSE, dict |-> ParserSection(g.parser, section),
              st |-> g.st]

---------------------------------------------------------------------------
(* Outcomes of the public operations *)

Returned(v) == [kind |-> "value", value |-> v, dict |-> EmptyMap]

ReturnedDict(d) == [kind |-> "dict", value |-> "", dict |-> d]

Raised(k) == [kind |-> k, value |-> "", dict |-> EmptyMap]

\* any exception of parser.read, propagated unchanged
ParseError == Raised("ParseError")

\* ConfigError('Default ini configuration file "{}" not found!')
MissingDefaultConfig == Raised("MissingDefaultConfig")

\* ConfigError('Value for key "{}" in section "{}" not found ...')
MissingKey == Raised("MissingKey")

\* ConfigError('Section "{}" not found in ini configuration "{}"!')
MissingSection == Raised("MissingSection")

NotFoundErrorSwapped(default_conf, notFound) ==
    IF PathTruthy(default_conf) THEN MissingDefaultConfig ELSE notFound

\* the two raise statements under `if not value:` / `if not result:`
NotFoundError(default_conf, notFound) ==
    IF ~PathTruthy(default_conf) THEN MissingDefaultConfig ELSE notFound

NeedDefaultLookupAlways(value, default_conf) == PathTruthy(default_conf)

\* `if not value and default_conf:` after the lookup in the custom file
NeedDefaultLookup(value, default_conf) ==
    ~ValueTruthy(value) /\ PathTruthy(default_conf)

\* dict.update: the pairs of `other` replace and extend those of `result`
DictUpdateKeepOld(result, other) ==
    [k \in DOMAIN result \cup DOMAIN other |->
        IF k \in DOMAIN result THEN result[k] ELSE other[k]]

DictUpdate(result, other) ==
    [k \in DOMAIN result \cup DOMAIN other |->
        IF k \in DOMAIN other THEN other[k] ELSE result[k]]

\* `if not result`: an empty dict is falsy
DictTruthy(result) == DOMAIN result # {}

---------------------------------------------------------------------------
(* The public operations, as functions of the current fs and cache.        *)
(* Each yields [out, parsers, reads].                                      *)

get_value(config_file_name, section, key) ==
    LET default_conf == find_ini_default(config_file_name)
        custom_conf == find_ini_custom(config_file_name)
        st0 == [parsers |-> parsers, reads |-> {}]
        none == [raised |-> FALSE, value |-> None, st |-> st0]
        first ==
            IF PathTruthy(custom_conf)
            THEN find_ini_value(st0, custom_conf, section, key)
            ELSE IF PathTruthy(default_conf)
                 THEN find_ini_value(st0, default_conf, section, key)
                 ELSE none
        second ==
            IF PathTruthy(custom_conf) /\ ~first.raised
                  /\ NeedDefaultLookup(first.value, default_conf)
            THEN find_ini_value(first.st, default_conf, section, key)
            ELSE first
        out ==
            IF second.raised THEN ParseError
            ELSE IF ~ValueTruthy(second.value)
                 THEN NotFoundError(default_conf, MissingKey)
                 ELSE Returned(second.value.str)
    IN  [out |-> out, parsers |-> second.st.parsers, reads |-> second.st.reads]

get_section_values(config_file_name, section) ==
    LET default_conf == find_ini_default(config_file_name)
        custom_conf == find_ini_custom(config_file_name)
        st0 == [parsers |-> parsers, reads |-> {}]
        result0 == [raised |-> FALSE, dict |-> EmptyMap, st |-> st0]
        d == IF PathTruthy(default_conf)
             THEN get_ini_section(st0, default_conf, section)
             ELSE result0
        result1 == [raised |-> d.raised, st |-> d.st,
                    dict |-> DictUpdate(result0.dict, d.dict)]
        c == IF ~result1.raised /\ PathTruthy(custom_conf)
             THEN get_ini_section(result1.st, custom_conf, section)
             ELSE [raised |-> result1.raised, dict |-> EmptyMap,
                   st |-> result1.st]
        result2 == [raised |-> c.raised, st |-> c.st,
                    dict |-> DictUpdate(result1.dict, c.dict)]
        out ==
            IF result2.raised THEN ParseError
            ELSE IF ~DictTruthy(result2.dict)
                 THEN NotFoundError(default_conf, MissingSection)
                 ELSE ReturnedDict(result2.dict)
    IN  [out |-> out, parsers |-> result2.st.parsers, reads |-> result2.st.reads]

---------------------------------------------------------------------------
(* State machine *)

NoCall ==
    [op |-> "none", name |-> "", section |-> "", key |-> "",
     out |-> Raised("none"), reads |-> {}, at |-> 0, obs |-> 0]

\* self.__parsers = {}
NewParsers == [p \in Paths |-> NoParser]

Init ==
    /\ fs \in [Paths -> Contents]
    /\ parsers = NewParsers
    /\ last = NoCall
    /\ pinned = NoCall
    /\ edits = 0
    /\ loud = 0

\* a call and its effect; last records it, and pinned may keep it for
\* comparison with the calls that follow
Call(op, name, section, key, r) ==
    LET rec == [op |-> op, name |-> name, section |-> section, key |-> key,
                out |-> r.out, reads |-> r.reads, at |-> edits, obs |-> loud]
    IN  /\ parsers' = r.parsers
        /\ last' = rec
        /\ pinned' \in (IF pinned.op = "none" THEN {pinned, rec} ELSE {pinned})
        /\ UNCHANGED <<fs, edits, loud>>

GetValue ==
    \E n \in Names, s \in Sections, k \in Keys :
        Call("get_value", n, s, k, get_value(n, s, k))

GetSectionValues ==
    \E n \in Names, s \in Sections :
        Call("get_section_values", n, s, "", get_section_values(n, s))

Next == GetValue \/ GetSectionValues

Spec == Init /\ [][Next]_vars

(* The environment: the files change under a living loader, and a new     *)
(* loader is constructed.                                                  *)

InitEnv ==
    /\ fs \in [Paths -> UniformContents]
    /\ parsers = NewParsers
    /\ last = NoCall
    /\ pinned = NoCall
    /\ edits = 0
    /\ loud = 0

\* a change of content alone, of a file the loader holds a parser for
ContentEditOfCached(p, c) ==
    /\ fs[p].kind # "absent"
    /\ c.kind # "absent"
    /\ parsers[p].kind = "parser"

\* edits counts the changes, loud those that create or delete a file or
\* touch a file the loader holds no parser for
ChangeResource ==
    /\ edits < MaxEdits
    /\ \E p \in Paths, c \in UniformContents :
          /\ c # fs[p]
          /\ fs' = [fs EXCEPT ![p] = c]
          /\ loud' = IF ContentEditOfCached(p, c) THEN loud ELSE loud + 1
    /\ edits' = edits + 1
    /\ UNCHANGED <<parsers, last, pinned>>

NewResolver ==
    /\ last.op # "none"
    /\ parsers' = NewParsers
    /\ last' = NoCall
    /\ pinned' = NoCall
    /\ UNCHANGED <<fs, edits, loud>>

NextEnv == GetValue \/ GetSectionValues \/ ChangeResource \/ NewResolver

SpecEnv == InitEnv /\ [][NextEnv]_vars

---------------------------------------------------------------------------
(* What the files hold, for the statement of the properties *)

IsCall(c) == c.op # "none"

CustomOf(c) == fs[CustomPath(c.name)]

DefaultOf(c) == fs[DefaultPath(c.name)]

\* the file holds a value (possibly empty) for (section, key)
Holds(content, section, key) ==
    /\ content.kind = "ini"
    /\ section \in DOMAIN content.sections
    /\ key \in DOMAIN content.sections[section]

HeldValue(content, section, key) == content.sections[section][key]

\* the file holds a non-empty value for (section, key)
HoldsNonEmpty(content, section, key) ==
    Holds(content, section, key) /\ HeldValue(content, section, key) # ""

\* the key/value mapping the file holds for the section
HeldSection(content, section) ==
    IF section \in DOMAIN content.sections
    THEN content.sections[section]
    ELSE EmptyMap

\* the file is absent or is parsed without an exception
Harmless(content) == content.kind # "malformed"

SameArguments(c1, c2) ==
    /\ c1.op = c2.op
    /\ c1.name = c2.name
    /\ c1.section = c2.section
    /\ c1.key = c2.key

---------------------------------------------------------------------------
(* Properties *)

\* C1: when the default resource does not exist, get_value and
\* get_section_values fail with MissingDefaultConfig, whatever the custom
\* resource holds (stated for the custom files that are absent or are parsed
\* without an exception).
C1_NoDefaultAlwaysFails ==
    (/\ IsCall(last)
     /\ DefaultOf(last).kind = "absent"
     /\ Harmless(CustomOf(last)))
        => last.out = MissingDefaultConfig

\* C2: with both resources present and a non-empty value for (section, key)
\* in both, get_value returns the custom resource's value.
C2_CustomOverrides ==
    (/\ last.op = "get_value"
     /\ HoldsNonEmpty(CustomOf(last), last.section, last.key)
     /\ HoldsNonEmpty(DefaultOf(last), last.section, last.key))
        => last.out = Returned(HeldValue(CustomOf(last), last.section, last.key))

C2_Witness ==
    /\ last.op = "get_value"
    /\ HoldsNonEmpty(CustomOf(last), last.section, last.key)
    /\ HoldsNonEmpty(DefaultOf(last), last.section, last.key)
    /\ HeldValue(CustomOf(last), last.section, last.key)
          # HeldValue(DefaultOf(last), last.section, last.key)
    /\ last.out.kind = "value"
    /\ last.out.value = HeldValue(CustomOf(last), last.section, last.key)

\* C3: with both resources present, an empty custom value and a non-empty
\* default value for (section, key), get_value returns the default's value;
\* and get_value never returns the empty string.
C3_EmptyIsAbsent ==
    last.op = "get_value" =>
        /\ (last.out.kind = "value" => last.out.value # "")
        /\ (/\ Holds(CustomOf(last), last.section, last.key)
            /\ HeldValue(CustomOf(last), last.section, last.key) = ""
            /\ HoldsNonEmpty(DefaultOf(last), last.section, last.key))
              => last.out =
                   Returned(HeldValue(DefaultOf(last), last.section, last.key))

C3_Witness ==
    /\ last.op = "get_value"
    /\ Holds(CustomOf(last), last.section, last.key)
    /\ HeldValue(CustomOf(last), last.section, last.key) = ""
    /\ HoldsNonEmpty(DefaultOf(last), last.section, last.key)
    /\ last.out.kind = "value"
    /\ last.out.value = HeldValue(DefaultOf(last), last.section, last.key)

\* C4: with both resources present, get_section_values returns the default's
\* section overlaid unconditionally by the custom's section: the keys of the
\* result are the keys of either section, a key of the custom section carries
\* the custom value (even the empty string), a key of the default section
\* alone carries the default value.
C4_SectionOverlay ==
    (/\ last.op = "get_section_values"
     /\ CustomOf(last).kind = "ini"
     /\ DefaultOf(last).kind = "ini")
        => LET c == HeldSection(CustomOf(last), last.section)
               d == HeldSection(DefaultOf(last), last.section)
               m == last.out.dict
           IN  (DOMAIN c \cup DOMAIN d # {}) =>
                  /\ last.out.kind = "dict"
                  /\ DOMAIN m = DOMAIN c \cup DOMAIN d
                  /\ \A k \in DOMAIN c : m[k] = c[k]
                  /\ \A k \in DOMAIN d \ DOMAIN c : m[k] = d[k]

C4_Witness ==
    /\ last.op = "get_section_values"
    /\ CustomOf(last).kind = "ini"
    /\ DefaultOf(last).kind = "ini"
    /\ LET c == HeldSection(CustomOf(last), last.section)
           d == HeldSection(DefaultOf(last), last.section)
       IN  /\ DOMAIN c = {"port"}
           /\ c["port"] = ""
           /\ DOMAIN d = {"host", "port"}
           /\ d["port"] # ""
           /\ d["host"] # ""
           /\ last.out = ReturnedDict([k \in {"host", "port"} |->
                                         IF k = "port" THEN "" ELSE d[k]])

OnlyDefault(c) == CustomOf(c).kind = "absent" /\ DefaultOf(c).kind = "ini"

\* C5 as stated: with only a default resource present, get_value returns
\* exactly the value the default holds for (section, key), and
\* get_section_values returns exactly the default's mapping for the section.
C5_DefaultOnlyExact ==
    (IsCall(last) /\ OnlyDefault(last)) =>
        /\ (last.op = "get_value"
              /\ Holds(DefaultOf(last), last.section, last.key))
             => last.out =
                  Returned(HeldValue(DefaultOf(last), last.section, last.key))
        /\ (last.op = "get_section_values"
              /\ last.section \in DOMAIN DefaultOf(last).sections)
             => last.out = ReturnedDict(HeldSection(DefaultOf(last), last.section))

\* C5 amended: with only a default resource present, get_value returns the
\* default's value for (section, key) when that value is not empty and fails
\* with MissingKey when it is empty or absent; get_section_values returns
\* exactly the default's mapping for the section when it has a key and fails
\* with MissingSection when it has none.
C5_DefaultOnlyNonEmpty ==
    (IsCall(last) /\ OnlyDefault(last)) =>
        /\ last.op = "get_value" =>
              IF HoldsNonEmpty(DefaultOf(last), last.section, last.key)
              THEN last.out =
                     Returned(HeldValue(DefaultOf(last), last.section, last.key))
              ELSE last.out = MissingKey
        /\ last.op = "get_section_values" =>
              IF DOMAIN HeldSection(DefaultOf(last), last.section) # {}
              THEN last.out =
                     ReturnedDict(HeldSection(DefaultOf(last), last.section))
              ELSE last.out = MissingSection

C5_Witness ==
    /\ pinned.op = "get_value"
    /\ OnlyDefault(last)
    /\ OnlyDefault(pinned)
    /\ HoldsNonEmpty(DefaultOf(pinned), pinned.section, pinned.key)
    /\ pinned.out.kind = "value"
    /\ last.op = "get_section_values"
    /\ \E k \in DOMAIN HeldSection(DefaultOf(last), last.section) :
          HeldSection(DefaultOf(last), last.section)[k] = ""
    /\ last.out.kind = "dict"

\* C6: when the default resource exists and a lookup produces no data, the
\* failure is MissingKey (get_value, key resolved in neither layer) or
\* MissingSection (get_section_values, section empty or absent in both
\* layers), never MissingDefaultConfig, and no empty result is returned.
C6_NotFoundKinds ==
    (IsCall(last) /\ DefaultOf(last).kind # "absent") =>
        /\ last.out # MissingDefaultConfig
        /\ last.out.kind = "value" => last.out.value # ""
        /\ last.out.kind = "dict" => DOMAIN last.out.dict # {}
        /\ (/\ last.op = "get_value"
            /\ Harmless(CustomOf(last)) /\ Harmless(DefaultOf(last))
            /\ ~HoldsNonEmpty(CustomOf(last), last.section, last.key)
            /\ ~HoldsNonEmpty(DefaultOf(last), last.section, last.key))
              => last.out = MissingKey
        /\ (/\ last.op = "get_section_values"
            /\ Harmless(CustomOf(last)) /\ Harmless(DefaultOf(last))
            /\ DOMAIN HeldSection(CustomOf(last), last.section) = {}
            /\ DOMAIN HeldSection(DefaultOf(last), last.section) = {})
              => last.out = MissingSection

C6_Witness ==
    /\ pinned.op = "get_value"
    /\ DefaultOf(last).kind = "ini"
    /\ CustomOf(last).kind = "ini"
    /\ pinned.out = MissingKey
    /\ last.op = "get_section_values"
    /\ last.out = MissingSection

\* C7: with the backing resources unchanged, two calls of the same operation
\* with the same arguments on one loader give the same outcome, whatever was
\* called in between and whether or not the parser came from the cache.
C7_Idempotent ==
    (IsCall(pinned) /\ SameArguments(pinned, last)) => last.out = pinned.out

C7_Witness ==
    /\ IsCall(pinned)
    /\ SameArguments(pinned, last)
    /\ pinned.reads = Paths
    /\ last.reads = {}
    /\ last.out.kind = "value"

\* C8 as stated: once the loader has served a lookup, no later change of the
\* backing resources is observed by the calls with the same arguments.
C8_NoChangeObserved ==
    (IsCall(pinned) /\ SameArguments(pinned, last) /\ pinned.at < last.at)
        => last.out = pinned.out

\* C8 amended: a change of the content of a file the loader already holds a
\* parser for is not observed by later calls; the other changes (a file
\* created or deleted, the content of a file not parsed yet) can be.
C8_CachedContentNotObserved ==
    (IsCall(pinned) /\ SameArguments(pinned, last) /\ pinned.obs = last.obs)
        => last.out = pinned.out

C8_Witness ==
    /\ pinned.op = "get_value"
    /\ SameArguments(pinned, last)
    /\ pinned.at < last.at
    /\ pinned.obs = last.obs
    /\ last.out.kind = "value"
    /\ HoldsNonEmpty(CustomOf(last), last.section, last.key)
    /\ HeldValue(CustomOf(last), last.section, last.key) # last.out.value

Cached(p) == parsers[p].kind = "parser"

\* C9 as stated: a file that cannot be parsed (malformed or unreadable)
\* makes the call fail with a parse error and leaves no cache entry.
C9_FailedParseNotCached ==
    \A p \in Paths :
        fs[p].kind \in {"malformed", "unreadable"} =>
            /\ ~Cached(p)
            /\ p \in last.reads => last.out = ParseError

C9_State ==
    \A p \in Paths :
        /\ Cached(p) => /\ fs[p].kind \in {"ini", "unreadable"}
                        /\ parsers[p].sections = fs[p].sections
        /\ (p \in last.reads /\ fs[p].kind # "malformed") => Cached(p)
        /\ (p \in last.reads /\ fs[p].kind = "malformed")
              => last.out = ParseError
        /\ (/\ fs[p].kind = "malformed"
            /\ \/ last.op = "get_value" /\ p = CustomPath(last.name)
               \/ last.op = "get_section_values" /\ p = DefaultPath(last.name))
              => p \in last.reads /\ last.out = ParseError

\* C9 amended: the cache holds an entry for a path exactly when a read of
\* that path has returned, and a cached path is never read again; a
\* malformed file makes the call fail with the parse error, leaves no entry
\* and is read again by the next access, while an unreadable file raises
\* nothing: it is cached as a parser without sections.
C9_ParsedOncePerPath ==
    [][/\ C9_State
       /\ C9_State'
       /\ \A p \in Paths :
             /\ Cached(p) => (p \notin last'.reads /\ parsers'[p] = parsers[p])
             /\ (~Cached(p) /\ Cached(p)') => p \in last'.reads]_vars

C9_Witness ==
    /\ IsCall(pinned)
    /\ CustomOf(last).kind = "unreadable"
    /\ DefaultOf(last).kind = "malformed"
    /\ Cached(CustomPath(last.name))
    /\ DefaultPath(last.name) \in pinned.reads
    /\ pinned.out = ParseError
    /\ last.reads = {DefaultPath(last.name)}
    /\ last.out = ParseError

\* C10: when the custom resource holds a non-empty value for (section, key),
\* get_value returns it without a lookup in the default resource: the
\* default file is not read and its cache entry is left as it was, whatever
\* the default file is (malformed, or absent).
C10_NoDefaultLookup ==
    [][(/\ last'.op = "get_value"
        /\ HoldsNonEmpty(CustomOf(last'), last'.section, last'.key))
          => /\ last'.out =
                  Returned(HeldValue(CustomOf(last'), last'.section, last'.key))
             /\ DefaultPath(last'.name) \notin last'.reads
             /\ parsers'[DefaultPath(last'.name)]
                   = parsers[DefaultPath(last'.name)]]_vars

C10_Witness ==
    /\ last.op = "get_value"
    /\ HoldsNonEmpty(CustomOf(last), last.section, last.key)
    /\ DefaultOf(last).kind = "malformed"
    /\ last.out.kind = "value"
    /\ ~Cached(DefaultPath(last.name))

===========================================================================
